---------------------------- MODULE Spec2Model ----------------------------
(***************************************************************************)
(* pare: a clipboard history kept in one sqlite table.  Three modes share  *)
(* the database: the Ingestor (stdin is a pipe), the Browser (stdin is a   *)
(* terminal) and the Monitor (--daemon).                                   *)
(*                                                                         *)
(* A text is a sequence of atoms.  An atom is either one character that    *)
(* the SQL tokenizer treats specially, or a run of characters it does not. *)
(* A statement is the sequence of atoms format!() produces, and            *)
(* Connection::execute is an interpreter over that sequence, so that what  *)
(* a clip's text does to the statement it is interpolated into is computed *)
(* and not assumed.                                                        *)
(***************************************************************************)
EXTENDS Integers, Sequences, FiniteSets, Bags, TLC

\* ------------------------------------------------------------------ texts

Quote == "'"

\* The literals of main.rs.
CREATE_TEXT == "CREATE TABLE IF NOT EXISTS clips (clip TEXT PRIMARY KEY);"
CREATE_STRING == "CREATE TABLE IF NOT EXISTS clips (clip STRING PRIMARY KEY);"
INSERT_INTO == "INSERT OR IGNORE INTO clips (clip) VALUES ("
DELETE_WHERE == "DELETE FROM clips WHERE clip ="
SELECT_CLIPS == "SELECT clip FROM clips;"

\* What a clip may carry besides plain characters: a statement of its own.
DELETE_ALL == "DELETE FROM clips"

pare_daemonized == <<"pare_daemonized">>
pared_daemonized == <<"pared_daemonized">>

\* The texts standard input delivers and the texts other programs put on
\* the clipboard.
Plain == <<"abc">>
Empty == <<>>
Zip == <<"07">>
OBrien == <<"O", Quote, "Brien">>
OOBrien == <<"O", Quote, Quote, "Brien">>
Bobby == <<"x", Quote, ")", ";", DELETE_ALL, ";", "--">>

StdinTexts == {Plain, Empty, OBrien, OOBrien, Bobby}
ClipboardTexts == StdinTexts \cup {Zip, pare_daemonized}

\* Option<T>: None, or Some(v) written as v.
None == -1

\* ---------------------------------------------------------------- sqlite

\* A database file: whether the clips table exists and with which column
\* type, and the table's rows as a bag of texts.
NoTable == "none"
FreshDb == [table |-> NoTable, rows |-> EmptyBag]

\* sqlite's column affinity: "STRING" names no text type, so the column has
\* NUMERIC affinity and a text that reads as an integer is stored as that
\* integer; a TEXT column stores the text as given.
IntegerTexts == {"07", "7"}
Canonical(atom) == IF atom = "07" THEN "7" ELSE atom
Affinity(table, value) ==
    IF table = "STRING" /\ Len(value) = 1 /\ value[1] \in IntegerTexts
    THEN <<Canonical(value[1])>>
    ELSE value

\* The tokenizer on a string literal whose opening quote is at i - 1: two
\* quotes in a row are one quote of the value, one quote alone ends the
\* literal, and the end of the statement text before that is an error.
RECURSIVE ScanLiteral(_, _, _)
ScanLiteral(sql, i, acc) ==
    IF i > Len(sql) THEN [ok |-> FALSE, value |-> acc, next |-> i]
    ELSE IF sql[i] = Quote
         THEN IF i + 1 <= Len(sql) /\ sql[i + 1] = Quote
              THEN ScanLiteral(sql, i + 2, Append(acc, Quote))
              ELSE [ok |-> TRUE, value |-> acc, next |-> i + 1]
         ELSE ScanLiteral(sql, i + 1, Append(acc, sql[i]))

\* The atom at position i, or "" past the end.
At(sql, i) == IF i <= Len(sql) THEN sql[i] ELSE ""

\* A comment runs to the end of its line.
RECURSIVE SkipComment(_, _)
SkipComment(sql, i) ==
    IF i > Len(sql) THEN i
    ELSE IF sql[i] = "\n" THEN i + 1
    ELSE SkipComment(sql, i + 1)

\* INSERT OR IGNORE: a row whose key is already there is left alone.
InsertAlways(rows, value) == rows (+) SetToBag({value})
InsertOrIgnore(rows, value) ==
    IF BagIn(value, rows) THEN rows ELSE rows (+) SetToBag({value})

\* DELETE ... WHERE clip = value: every row with that key.
DeleteWhere(rows, value) ==
    LET keep == BagToSet(rows) \ {value}
    IN  [v \in keep |-> rows[v]]

\* sqlite3_exec: the statements of sql from position i on, one at a time,
\* each committed before the next is compiled.  The first statement that
\* does not compile or cannot run ends the call with an error and leaves
\* what the earlier statements did.
RECURSIVE Exec(_, _, _)
Exec(d, sql, i) ==
    IF i > Len(sql) THEN [db |-> d, ok |-> TRUE]
    ELSE IF sql[i] = "--" THEN Exec(d, sql, SkipComment(sql, i + 1))
    ELSE IF sql[i] = "\n" THEN Exec(d, sql, i + 1)
    ELSE IF sql[i] \in {CREATE_TEXT, CREATE_STRING}
    THEN LET kind == IF sql[i] = CREATE_TEXT THEN "TEXT" ELSE "STRING"
             made == IF d.table = NoTable THEN [d EXCEPT !.table = kind] ELSE d
         IN  Exec(made, sql, i + 1)
    ELSE IF sql[i] = INSERT_INTO /\ At(sql, i + 1) = Quote
    THEN LET lit == ScanLiteral(sql, i + 2, <<>>)
         IN  IF lit.ok /\ At(sql, lit.next) = ")" /\ At(sql, lit.next + 1) = ";"
                /\ d.table # NoTable
             THEN Exec([d EXCEPT !.rows =
                           InsertOrIgnore(d.rows, Affinity(d.table, lit.value))],
                       sql, lit.next + 2)
             ELSE [db |-> d, ok |-> FALSE]
    ELSE IF sql[i] = DELETE_WHERE /\ At(sql, i + 1) = Quote
    THEN LET lit == ScanLiteral(sql, i + 2, <<>>)
         IN  IF lit.ok /\ At(sql, lit.next) = ";" /\ d.table # NoTable
             THEN Exec([d EXCEPT !.rows =
                           DeleteWhere(d.rows, Affinity(d.table, lit.value))],
                       sql, lit.next + 1)
             ELSE [db |-> d, ok |-> FALSE]
    ELSE IF sql[i] = DELETE_ALL /\ At(sql, i + 1) = ";" /\ d.table # NoTable
    THEN Exec([d EXCEPT !.rows = EmptyBag], sql, i + 2)
    ELSE [db |-> d, ok |-> FALSE]

\* Connection::execute.
execute(d, sql) == Exec(d, sql, 1)

\* format!("CREATE TABLE ...; INSERT OR IGNORE INTO clips (clip) VALUES ('{clip}');")
InsertQuery(create, clip) ==
    <<create, INSERT_INTO, Quote>> \o clip \o <<Quote, ")", ";">>

\* format!("DELETE FROM clips WHERE clip = '{}';", clip[0])
DeleteQuery(clip) == <<DELETE_WHERE, Quote>> \o clip \o <<Quote, ";">>

\* The orders in which "SELECT clip FROM clips;" may hand out the rows:
\* sqlite promises none without ORDER BY.
Orders(rows) ==
    LET n == BagCardinality(rows)
    IN  {s \in [1..n -> BagToSet(rows)] :
            \A v \in BagToSet(rows) :
                Cardinality({k \in 1..n : s[k] = v}) = CopiesIn(v, rows)}

\* ----------------------------------------------------------------- state

VARIABLES
    db,                \* the sqlite file <data_dir>/pare/db
    clipboard,         \* the system clipboard: <<>> (nothing to read) or <<text>>
    platform,          \* "linux" or "other": which daemon() the build holds
    clamps,            \* whether the table widget of the build clamps the selection
    mpc,               \* Monitor: "off", "loop", "waiting", "error", "panicked"
    previous,          \* Monitor (not linux): the text seen last
    bpc,               \* Browser: "off", "running", "confirm", "cancel", "error", "panicked"
    db_rows,           \* Browser: AppState.db_rows, the snapshot
    selected,          \* Browser: AppState.state.selected(), None or an index from 0
    raw_mode,          \* the terminal is in raw mode
    alternate_screen,  \* the terminal shows the alternate screen
    last               \* the step taken last: [op, text, result]

vars == <<db, clipboard, platform, clamps, mpc, previous, bpc, db_rows, selected,
          raw_mode, alternate_screen, last>>

monitorVars == <<mpc, previous>>
browserVars == <<bpc, db_rows, selected, raw_mode, alternate_screen>>
buildVars == <<platform, clamps>>

\* The largest selection index the model follows (Down has no upper limit
\* of its own once the selection is past the last row).
MaxSel == 3

NoContent == <<>>
Some(text) == <<text>>

Step(op, text, result) == [op |-> op, text |-> text, result |-> result]

\* A clipboard write by another process ends the wait of a Monitor that
\* set the clipboard with SetExtLinux::wait.
Overwritten(pc) == IF pc = "waiting" THEN "loop" ELSE pc

Init ==
    /\ db = FreshDb
    /\ clipboard = NoContent
    /\ platform \in {"linux", "other"}
    /\ clamps \in BOOLEAN
    /\ mpc = "off"
    /\ previous = Empty
    /\ bpc = "off"
    /\ db_rows = <<>>
    /\ selected = None
    /\ raw_mode = FALSE
    /\ alternate_screen = FALSE
    /\ last = Step("init", Empty, "ok")

\* -------------------------------------------------------------- Ingestor

\* An Ingestor that sets the clipboard before it writes to the store.
IngestClipboardFirst(clip, clipboardWorks) ==
    LET done == execute(db, InsertQuery(CREATE_TEXT, clip))
    IN  /\ db' = done.db
        /\ IF clipboardWorks
           THEN /\ clipboard' = Some(clip)
                /\ mpc' = Overwritten(mpc)
           ELSE UNCHANGED <<clipboard, mpc>>
        /\ last' = Step("Ingest", clip,
                        IF ~clipboardWorks THEN "clipboard error"
                        ELSE IF done.ok THEN "ok" ELSE "store error")
        /\ UNCHANGED <<previous, browserVars, buildVars>>

\* main(), standard input not a terminal: read all of it, CREATE + INSERT
\* in one execute, then set the clipboard.  An error of either ends the
\* run with that error.
Ingest(clip, clipboardWorks) ==
    LET done == execute(db, InsertQuery(CREATE_TEXT, clip))
    IN  /\ db' = done.db
        /\ IF done.ok /\ clipboardWorks
           THEN /\ clipboard' = Some(clip)
                /\ mpc' = Overwritten(mpc)
                /\ last' = Step("Ingest", clip, "ok")
           ELSE /\ UNCHANGED <<clipboard, mpc>>
                /\ last' = Step("Ingest", clip,
                                IF done.ok THEN "clipboard error" ELSE "store error")
        /\ UNCHANGED <<previous, browserVars, buildVars>>

\* Another program takes the clipboard.
Copy(text) ==
    /\ clipboard' = Some(text)
    /\ mpc' = Overwritten(mpc)
    /\ last' = Step("Copy", text, "ok")
    /\ UNCHANGED <<db, previous, browserVars, buildVars>>

\* --------------------------------------------------------------- Monitor

\* daemon(): Clipboard::new().unwrap(), and on other platforms previous = "".
MonitorStart(clipboardWorks) ==
    /\ mpc = "off"
    /\ mpc' = IF clipboardWorks THEN "loop" ELSE "panicked"
    /\ previous' = Empty
    /\ last' = Step("MonitorStart", Empty, IF clipboardWorks THEN "ok" ELSE "panic")
    /\ UNCHANGED <<db, clipboard, browserVars, buildVars>>

\* A daemon that goes on after a failed execute.
PropagateIgnored(done, pc) == pc

\* db.execute(query).map_err(..)?: an error of the store leaves daemon().
Propagate(done, pc) == IF done.ok THEN pc ELSE "error"

\* clipboard.get_text().unwrap_or(sentinel)
GetTextOr(sentinel) == IF clipboard = NoContent THEN sentinel ELSE clipboard[1]

\* One turn of the linux loop.
TickLinux(clipboardWorks) ==
    /\ platform = "linux"
    /\ mpc = "loop"
    /\ LET text == GetTextOr(pare_daemonized)
           done == execute(db, InsertQuery(CREATE_TEXT, text))
       IN  IF text # pare_daemonized
           THEN /\ db' = done.db
                /\ IF ~done.ok
                   THEN /\ mpc' = Propagate(done, mpc)
                        /\ UNCHANGED clipboard
                        /\ last' = Step("Tick", text, "store error")
                   ELSE IF clipboardWorks
                   THEN /\ mpc' = "waiting"
                        /\ clipboard' = Some(text)
                        /\ last' = Step("Tick", text, "ok")
                   ELSE /\ mpc' = "panicked"
                        /\ UNCHANGED clipboard
                        /\ last' = Step("Tick", text, "panic")
           ELSE /\ last' = Step("Tick", text, "sleep")
                /\ UNCHANGED <<db, clipboard, mpc>>
    /\ UNCHANGED <<previous, browserVars, buildVars>>

\* One turn of the loop of the other platforms.
TickOther ==
    /\ platform = "other"
    /\ mpc = "loop"
    /\ LET current == GetTextOr(pared_daemonized)
           done == execute(db, InsertQuery(CREATE_STRING, current))
       IN  IF current # previous
           THEN /\ db' = done.db
                /\ IF ~done.ok
                   THEN /\ mpc' = Propagate(done, mpc)
                        /\ UNCHANGED previous
                        /\ last' = Step("Tick", current, "store error")
                   ELSE /\ previous' = current
                        /\ UNCHANGED mpc
                        /\ last' = Step("Tick", current, "ok")
           ELSE /\ last' = Step("Tick", current, "sleep")
                /\ UNCHANGED <<db, mpc, previous>>
    /\ UNCHANGED <<clipboard, browserVars, buildVars>>

\* --------------------------------------------------------------- Browser

\* Connection::iterate: the rows of a SELECT on clips, an error without the
\* table.
iterate(d, query) ==
    [ok |-> query = SELECT_CLIPS /\ d.table # NoTable, orders |-> Orders(d.rows)]

\* The closure of main() returned: disable_raw_mode, LeaveAlternateScreen,
\* and the process ends with the closure's result.
Leave(code) ==
    /\ bpc' = code
    /\ db_rows' = <<>>
    /\ selected' = None
    /\ raw_mode' = FALSE
    /\ alternate_screen' = FALSE

\* A panic inside the closure unwinds through main(): nothing after the
\* closure runs.
Panic ==
    /\ bpc' = "panicked"
    /\ db_rows' = <<>>
    /\ selected' = None
    /\ UNCHANGED <<raw_mode, alternate_screen>>

\* main(), standard input a terminal: raw mode, alternate screen, the
\* snapshot, AppState::new with the first row selected.
BrowserStart ==
    /\ bpc # "running"
    /\ LET got == iterate(db, SELECT_CLIPS)
       IN  IF got.ok
           THEN /\ bpc' = "running"
                /\ db_rows' \in got.orders
                /\ selected' = 0
                /\ raw_mode' = TRUE
                /\ alternate_screen' = TRUE
                /\ last' = Step("BrowserStart", Empty, "ok")
           ELSE /\ Leave("error")
                /\ last' = Step("BrowserStart", Empty, "store error")
    /\ UNCHANGED <<db, clipboard, monitorVars, buildVars>>

\* ui(): render_stateful_widget hands the TableState to the table widget.
\* A widget that clamps sets the selection to the last row when it is past
\* it and to None when there is no row; one that does not leaves it.
ui(rows, sel) ==
    IF ~clamps THEN sel
    ELSE IF rows = <<>> THEN None
    ELSE IF sel # None /\ sel >= Len(rows) THEN Len(rows) - 1
    ELSE sel

\* Option::unwrap_or
unwrap_or(opt, default) == IF opt = None THEN default ELSE opt

\* usize::saturating_sub
saturating_sub(a, b) == IF a >= b THEN a - b ELSE 0

\* KeyCode::Down
DownSelection(rows, sel) ==
    LET max_idx == saturating_sub(Len(rows), 1)
        cur == unwrap_or(sel, 0)
    IN  IF cur = max_idx THEN max_idx ELSE cur + 1

\* KeyCode::Up
UpSelection(sel) == saturating_sub(unwrap_or(sel, 0), 1)

\* KeyCode::Enter and KeyCode::Delete act on a snapshot that is not empty.
EnterAlways(rows) == TRUE
EnterActs(rows) == rows # <<>>
DeleteActs(rows) == rows # <<>>

\* Vec::remove(index)
remove(rows, index) ==
    [k \in 1..(Len(rows) - 1) |-> IF k <= index THEN rows[k] ELSE rows[k + 1]]

\* A loop that loads the snapshot again on every turn.
RedrawReload ==
    /\ bpc = "running"
    /\ db_rows' \in Orders(db.rows)
    /\ selected' = ui(db_rows, selected)
    /\ last' = Step("Redraw", Empty, "ok")
    /\ UNCHANGED <<db, clipboard, monitorVars, buildVars, bpc,
                   raw_mode, alternate_screen>>

\* The loop turns once with no key within the poll's 50 ms.
Redraw ==
    /\ bpc = "running"
    /\ selected' = ui(db_rows, selected)
    /\ last' = Step("Redraw", Empty, "ok")
    /\ UNCHANGED <<db, clipboard, monitorVars, buildVars, bpc, db_rows,
                   raw_mode, alternate_screen>>

\* terminal.draw or the event poll returns an error.
TerminalError ==
    /\ bpc = "running"
    /\ Leave("error")
    /\ last' = Step("TerminalError", Empty, "terminal error")
    /\ UNCHANGED <<db, clipboard, monitorVars, buildVars>>

Esc ==
    /\ bpc = "running"
    /\ Leave("cancel")
    /\ last' = Step("Esc", Empty, "ok")
    /\ UNCHANGED <<db, clipboard, monitorVars, buildVars>>

Down ==
    /\ bpc = "running"
    /\ DownSelection(db_rows, ui(db_rows, selected)) <= MaxSel
    /\ selected' = DownSelection(db_rows, ui(db_rows, selected))
    /\ last' = Step("Down", Empty, "ok")
    /\ UNCHANGED <<db, clipboard, monitorVars, buildVars, bpc, db_rows,
                   raw_mode, alternate_screen>>

Up ==
    /\ bpc = "running"
    /\ selected' = UpSelection(ui(db_rows, selected))
    /\ last' = Step("Up", Empty, "ok")
    /\ UNCHANGED <<db, clipboard, monitorVars, buildVars, bpc, db_rows,
                   raw_mode, alternate_screen>>

\* Clipboard::new().unwrap(), the index into db_rows with
\* selected().unwrap(), set_text(..).unwrap(): each failure is a panic.
Enter(clipboardWorks) ==
    /\ bpc = "running"
    /\ LET sel == ui(db_rows, selected)
       IN  IF EnterActs(db_rows)
           THEN IF ~clipboardWorks
                THEN /\ Panic
                     /\ last' = Step("Enter", Empty, "clipboard panic")
                     /\ UNCHANGED <<clipboard, mpc>>
                ELSE IF sel = None \/ sel >= Len(db_rows)
                THEN /\ Panic
                     /\ last' = Step("Enter", Empty, "index panic")
                     /\ UNCHANGED <<clipboard, mpc>>
                ELSE /\ clipboard' = Some(db_rows[sel + 1])
                     /\ mpc' = Overwritten(mpc)
                     /\ Leave("confirm")
                     /\ last' = Step("Enter", db_rows[sel + 1], "ok")
           ELSE /\ selected' = sel
                /\ last' = Step("Enter", Empty, "ignored")
                /\ UNCHANGED <<clipboard, mpc, bpc, db_rows, raw_mode,
                               alternate_screen>>
    /\ UNCHANGED <<db, previous, buildVars>>

\* Vec::remove panics past the end; the DELETE runs after the row has left
\* the snapshot, and its error ends the session through the closure.
Delete ==
    /\ bpc = "running"
    /\ LET sel == unwrap_or(ui(db_rows, selected), 0)
       IN  IF DeleteActs(db_rows)
           THEN IF sel < Len(db_rows)
                THEN LET clip == db_rows[sel + 1]
                         done == execute(db, DeleteQuery(clip))
                     IN  /\ db' = done.db
                         /\ IF done.ok
                            THEN /\ db_rows' = remove(db_rows, sel)
                                 /\ selected' = ui(db_rows, selected)
                                 /\ last' = Step("Delete", clip, "ok")
                                 /\ UNCHANGED <<bpc, raw_mode, alternate_screen>>
                            ELSE /\ Leave("error")
                                 /\ last' = Step("Delete", clip, "store error")
                ELSE /\ Panic
                     /\ last' = Step("Delete", Empty, "index panic")
                     /\ UNCHANGED db
           ELSE /\ selected' = ui(db_rows, selected)
                /\ last' = Step("Delete", Empty, "ignored")
                /\ UNCHANGED <<db, bpc, db_rows, raw_mode, alternate_screen>>
    /\ UNCHANGED <<clipboard, monitorVars, buildVars>>

\* ------------------------------------------------------------------ Next

IngestorNext == \E clip \in StdinTexts, works \in BOOLEAN : Ingest(clip, works)

ClipboardNext == \E text \in ClipboardTexts : Copy(text)

\* The texts selected in other programs while a Browser session is open.
SelectionTexts == {Plain, OBrien, OOBrien, Bobby}

SelectionNext == \E text \in SelectionTexts : Copy(text)

MonitorNext ==
    \/ \E works \in BOOLEAN : MonitorStart(works)
    \/ \E works \in BOOLEAN : TickLinux(works)
    \/ TickOther

BrowserNext ==
    \/ BrowserStart
    \/ Redraw
    \/ TerminalError
    \/ Esc
    \/ Down
    \/ Up
    \/ \E works \in BOOLEAN : Enter(works)
    \/ Delete

Next == IngestorNext \/ ClipboardNext \/ MonitorNext \/ BrowserNext

\* Every mode, each its own process, over the one database and clipboard.
Spec == Init /\ [][Next]_vars

\* The writers of the store: Ingestor runs and one Monitor, with the
\* programs that take the clipboard in between.
SpecMonitor == Init /\ [][IngestorNext \/ ClipboardNext \/ MonitorNext]_vars

\* Browser sessions over a store that Ingestor runs fill.
SpecBrowser == Init /\ [][IngestorNext \/ BrowserNext]_vars

\* Browser sessions beside a running Monitor, each its own process, with
\* the programs that take the clipboard.
SpecShared == Init /\ [][SelectionNext \/ MonitorNext \/ BrowserNext]_vars


\* ---------------------------------------------------------------- claims

\* An Ingestor run or a Monitor tick inserted last.text and went through.
Inserted == last.op \in {"Ingest", "Tick"} /\ last.result = "ok"

\* C1: after insert operations (Ingestor runs, Monitor ticks) no value has
\* two rows, and the non-empty value just inserted has its row.
C1_Uniqueness ==
    /\ \A v \in BagToSet(db.rows) : CopiesIn(v, db.rows) = 1
    /\ (Inserted /\ last.text # Empty) => BagIn(last.text, db.rows)

\* C2: an Ingestor run on any non-empty text ends without a store error,
\* and the store afterwards holds the rows it held plus that text.
C2_RoundTrip ==
    [][(last'.op = "Ingest" /\ last'.text # Empty)
       => /\ last'.result # "store error"
          /\ BagToSet(db'.rows) = BagToSet(db.rows) \cup {last'.text}]_vars

\* C3: an Ingestor run on a value that is a row of the store does not fail
\* in the store, leaves the rows as they are with one row for the value,
\* and when it succeeds the value is on the clipboard.
C3_Idempotent ==
    [][(last'.op = "Ingest" /\ BagIn(last'.text, db.rows))
       => /\ last'.result # "store error"
          /\ db'.rows = db.rows
          /\ CopiesIn(last'.text, db'.rows) = 1
          /\ (last'.result = "ok" => clipboard' = Some(last'.text))]_vars

\* C4: an Ingestor run on empty input succeeds (no clipboard is needed for
\* it) and changes neither the rows of the store nor the clipboard.
C4_EmptyIngestNoOp ==
    [][(last'.op = "Ingest" /\ last'.text = Empty
        /\ last'.result # "clipboard error")
       => /\ last'.result = "ok"
          /\ db'.rows = db.rows
          /\ clipboard' = clipboard]_vars

\* C5: while a session runs on a snapshot of N > 0 clips, the selection the
\* next key acts on is an index in 0 .. N-1.
C5_SelectionInBounds ==
    (bpc = "running" /\ db_rows # <<>>)
    => LET sel == ui(db_rows, selected)
       IN  sel # None /\ 0 <= sel /\ sel <= Len(db_rows) - 1

\* C6: Delete on a snapshot that is not empty removes the clip at the
\* selection from the snapshot, the others keeping their order, and the row
\* of that text from the store, and the session goes on.
C6_DeleteSelected ==
    [][(bpc = "running" /\ db_rows # <<>> /\ last'.op = "Delete")
       => LET sel == ui(db_rows, selected)
          IN  /\ sel # None /\ sel < Len(db_rows)
              /\ bpc' = "running"
              /\ db_rows' = remove(db_rows, sel)
              /\ db'.rows = DeleteWhere(db.rows, db_rows[sel + 1])]_vars

\* C7: Enter on a snapshot that is not empty, the clipboard being there,
\* puts the whole text of the clip at the selection on the clipboard and
\* ends the session as Confirm, the store unchanged.
C7_EnterConfirms ==
    [][(bpc = "running" /\ db_rows # <<>> /\ last'.op = "Enter"
        /\ last'.result # "clipboard panic")
       => LET sel == ui(db_rows, selected)
          IN  /\ sel # None /\ sel < Len(db_rows)
              /\ bpc' = "confirm"
              /\ clipboard' = Some(db_rows[sel + 1])
              /\ db' = db]_vars

\* C8: however a Browser session ended, the terminal is out of raw mode and
\* off the alternate screen.
C8_Cleanup ==
    bpc \in {"confirm", "cancel", "error", "panicked"}
    => ~raw_mode /\ ~alternate_screen

\* C9: on an empty snapshot Enter, Delete, Up and Down write no clipboard,
\* change no store, raise no error and leave the session running, and Esc
\* then ends it as Cancel with the terminal restored.
C9_EmptyInert ==
    [][(bpc = "running" /\ db_rows = <<>>)
       => /\ last'.op \in {"Enter", "Delete", "Up", "Down"}
             => /\ clipboard' = clipboard
                /\ db' = db
                /\ bpc' = "running"
                /\ db_rows' = <<>>
                /\ raw_mode' /\ alternate_screen'
                /\ last'.result \in {"ok", "ignored"}
          /\ last'.op = "Esc"
             => bpc' = "cancel" /\ ~raw_mode' /\ ~alternate_screen']_vars

\* C9 witness: Enter was pressed on an empty snapshot and the session runs.
C9_Witness ==
    /\ bpc = "running"
    /\ db_rows = <<>>
    /\ last.op = "Enter"
    /\ last.result = "ignored"

\* C10: a Browser started on any store, a fresh one included, loads the
\* rows of the store as its snapshot without an error and leaves them.
C10_FirstAccess ==
    [][last'.op = "BrowserStart"
       => /\ bpc' = "running"
          /\ db_rows' \in Orders(db.rows)
          /\ db'.rows = db.rows]_vars

\* A text with a quote in it.
HasQuote(text) == \E k \in 1..Len(text) : text[k] = Quote

\* C11: a Monitor tick on a clipboard that holds a non-empty value v, and
\* holds it still after the tick, leaves exactly one row for v in the store
\* and the other rows as they were.
C11_MonitorDedup ==
    [][(last'.op = "Tick" /\ clipboard # NoContent /\ clipboard' = clipboard
        /\ clipboard[1] # Empty)
       => LET v == clipboard[1]
          IN  /\ CopiesIn(v, db'.rows) = 1
              /\ BagToSet(db'.rows) \ {v} = BagToSet(db.rows) \ {v}
              /\ \A w \in BagToSet(db.rows) \ {v} :
                    CopiesIn(w, db'.rows) = CopiesIn(w, db.rows)]_vars

\* C12: a Monitor tick on a clipboard that holds a non-empty value v without
\* a quote, v not the value seen last, leaves v a row of the store.
C12_RecordsEverySelection ==
    [][(last'.op = "Tick" /\ clipboard # NoContent /\ clipboard[1] # Empty
        /\ ~HasQuote(clipboard[1])
        /\ (platform = "other" => clipboard[1] # previous))
       => BagIn(clipboard[1], db'.rows)]_vars

\* C13: a Monitor tick on a clipboard that cannot be read, or that holds the
\* empty text, inserts nothing and leaves the daemon in its loop.
C13_UnreadableTolerated ==
    [][(last'.op = "Tick" /\ (clipboard = NoContent \/ clipboard = Some(Empty)))
       => /\ db'.rows = db.rows
          /\ mpc' = "loop"]_vars

\* C16: a Browser Delete whose selected clip is not a row of the store raises
\* no error and leaves the rows of the store as they were.
C16_DeleteAbsentNoOp ==
    [][(last'.op = "Delete" /\ bpc = "running"
        /\ unwrap_or(selected, 0) < Len(db_rows)
        /\ ~BagIn(db_rows[unwrap_or(selected, 0) + 1], db.rows))
       => /\ last'.result = "ok"
          /\ bpc' = "running"
          /\ db'.rows = db.rows]_vars

\* C17: a step that is not a Browser Delete removes no row of the store and
\* alters none; Up, Down, Enter and Esc leave the store as it was.
C17_OnlyDeleteRemoves ==
    [][/\ last'.op # "Delete"
          => \A v \in BagToSet(db.rows) :
                CopiesIn(v, db'.rows) = CopiesIn(v, db.rows)
       /\ last'.op \in {"Up", "Down", "Enter", "Esc"} => db' = db]_vars

\* The statement a Monitor tick executes for a text on this platform.
TickQuery(text) ==
    InsertQuery(IF platform = "linux" THEN CREATE_TEXT ELSE CREATE_STRING, text)

\* C18: a Monitor tick whose insert fails stops the daemon with an error:
\* the tick writes no clipboard and records nothing as seen, and a stopped
\* daemon takes no further tick and is never back in its loop.
C18_StoreFailureFatal ==
    [][/\ (last'.op = "Tick" /\ last'.result # "sleep"
           /\ ~execute(db, TickQuery(last'.text)).ok)
          => /\ mpc' = "error"
             /\ last'.result = "store error"
             /\ clipboard' = clipboard
             /\ previous' = previous
       /\ mpc = "error" => (mpc' = "error" /\ last'.op # "Tick")]_vars

\* A daemon stopped by a failed insert.
C18_Witness ==
    /\ mpc = "error"
    /\ last.op = "Tick"
    /\ last.result = "store error"
    /\ clipboard = Some(last.text)

\* C19: an Ingestor run executes its insert whatever becomes of the
\* clipboard; a failed insert is reported and leaves the clipboard as it was;
\* the clipboard is set to the clip only in a run whose insert succeeded.
C19_IngestorOrder ==
    [][last'.op = "Ingest"
       => LET done == execute(db, InsertQuery(CREATE_TEXT, last'.text))
          IN  /\ db' = done.db
              /\ ~done.ok => /\ last'.result = "store error"
                             /\ clipboard' = clipboard
                             /\ mpc' = mpc
              /\ last'.result = "ok" => (done.ok /\ clipboard' = Some(last'.text))
              /\ last'.result = "clipboard error"
                    => (done.ok /\ clipboard' = clipboard)]_vars

\* An Ingestor run whose insert failed, the clipboard not holding its clip.
C19_Witness ==
    /\ last.op = "Ingest"
    /\ last.result = "store error"
    /\ clipboard # Some(last.text)

\* C20: a Monitor tick leaves the text of the clipboard as it was; a tick that
\* writes the clipboard is a linux tick that writes the text it read, and that
\* text is a row of the store when it is written.
C20_MonitorKeepsText ==
    [][last'.op = "Tick"
       => /\ clipboard' = clipboard
          /\ platform = "other" => mpc' # "waiting"
          /\ mpc' = "waiting" => /\ clipboard = Some(last'.text)
                                 /\ BagIn(last'.text, db'.rows)]_vars

\* C14: while a Browser session runs, no step but its own Delete changes the
\* snapshot: not a Monitor tick that inserts, not a turn of the loop.
C14_SnapshotFrozen ==
    [][(bpc = "running" /\ bpc' = "running" /\ last'.op # "Delete")
       => db_rows' = db_rows]_vars

\* A Monitor tick has inserted a row that the snapshot of the running
\* session does not hold.
C14_Witness ==
    /\ bpc = "running"
    /\ db_rows # <<>>
    /\ last.op = "Tick"
    /\ last.result = "ok"
    /\ \E v \in BagToSet(db.rows) : \A k \in 1..Len(db_rows) : db_rows[k] # v

\* The Monitor is about to insert v.
MonitorInserts(v) ==
    /\ mpc = "loop"
    /\ clipboard = Some(v)
    /\ platform = "linux" => v # pare_daemonized
    /\ platform = "other" => v # previous

\* The running session has the clip v selected.
Selects(v) ==
    /\ bpc = "running"
    /\ unwrap_or(selected, 0) < Len(db_rows)
    /\ db_rows[unwrap_or(selected, 0) + 1] = v

\* C15: with a Browser about to delete v and a Monitor about to insert the
\* same v, whichever goes first and whichever goes last, the Delete goes
\* through and leaves no row v, the tick goes through and leaves one row v.
C15_DeleteInsertSerialize ==
    [][/\ (last'.op = "Delete" /\ clipboard # NoContent
           /\ Selects(clipboard[1])
           /\ (MonitorInserts(clipboard[1])
               \/ (last.op = "Tick" /\ last.text = clipboard[1])))
          => /\ last'.result = "ok"
             /\ ~BagIn(clipboard[1], db'.rows)
       /\ (last'.op = "Tick" /\ clipboard # NoContent
           /\ MonitorInserts(clipboard[1])
           /\ (Selects(clipboard[1])
               \/ (last.op = "Delete" /\ last.text = clipboard[1])))
          => /\ last'.result # "store error"
             /\ CopiesIn(clipboard[1], db'.rows) = 1]_vars

=============================================================================
